---- MODULE Spec2Model ----
(***************************************************************************)
(* Study Space Station API (src/main.py, src/schemas.py).                  *)
(*                                                                         *)
(* The state is the two MongoDB collections the gamification code touches  *)
(* (astronaut, session), the UTC clock, and one stack frame per request    *)
(* worker.  Every database call of a handler is one atomic step; the code  *)
(* between two calls belongs to the step of the call that follows it.      *)
(* Requests of different workers interleave between database calls.        *)
(*                                                                         *)
(* Time is counted in ticks of 1/TicksPerDay of a day.  ended_at holds a   *)
(* tick; datetime.date() is Date(t) == t \div TicksPerDay.  started_at,    *)
(* break_min, created_at, updated_at and _id are written by the code but   *)
(* never read back by it and are left out of the documents.                *)
(*                                                                         *)
(* find(...).limit(1), find_one and update_one without a sort act on "the  *)
(* first" matching document in an order MongoDB does not specify: they are *)
(* a nondeterministic choice among the matching documents.                 *)
(*                                                                         *)
(* The database handle db is taken to be available and true in the test    *)
(* "if db" of ensure_astronaut (the module database is not part of the     *)
(* sources); the "Database unavailable" exits of the handlers are not      *)
(* modelled.  insert_one always adds a document: the sources create no     *)
(* unique index on astronaut.username.                                     *)
(***************************************************************************)
EXTENDS Integers, Sequences, FiniteSets, TLC

VARIABLES clock,       \* current UTC time, in ticks
          astronaut,   \* db["astronaut"]: sequence of documents, insertion order
          session,     \* db["session"]: sequence of documents, insertion order
          pc,          \* per worker: position in the handler it runs
          req,         \* per worker: the request being handled
          frame,       \* per worker: the handler's local variables
          ticks,       \* bookkeeping: how many times the clock has advanced
          overlapped   \* history: users for whom two complete_session requests were in flight together

vars == <<clock, astronaut, session, pc, req, frame, ticks, overlapped>>

-----------------------------------------------------------------------------
(* Bounds of the model *)

TicksPerDay == 2
MaxSessions == 2
MaxSessionsSeq == 2
MaxTicksSeq == 2
MaxSessionsBoard == 2
MaxTicksBoard == 2

Workers == {1, 2}
SeqWorkers == {1}
Users == {"ana", "bo"}
Durations == {112, 125}      \* 112 completed earns 249 points, 125 cancelled earns 250
BoardDurations == {125}
Limits == {1, 2}             \* below and at the number of users
BoardWriters == {1}
BoardReaders == {2}
Statuses == {"completed", "cancelled"}
Periods == {"week", "all"}

(* Program constants *)
POINTS_PER_MIN == 2
BONUS_COMPLETED == 25
XP_PER_LEVEL == 250
WEEK_DAYS == 7

NoneDt == -1

-----------------------------------------------------------------------------
(* Pure helpers *)

Date(t) == t \div TicksPerDay

Max(a, b) == IF a >= b THEN a ELSE b

Min(a, b) == IF a <= b THEN a ELSE b

\* mutant: the delta overwrites the xp instead of adding to it
NewXpOverwrites(xp, delta_xp) == delta_xp

NewXp(xp, delta_xp) == xp + delta_xp

\* mutant: the "+ 1" of the leveling curve is lost
LevelForOffByOne(new_xp) == Max(1, new_xp \div XP_PER_LEVEL)

LevelFor(new_xp) == Max(1, (new_xp \div XP_PER_LEVEL) + 1)

\* mutant: the completion bonus is added whatever the status
PointsForAlwaysBonus(duration_min, status) == duration_min * POINTS_PER_MIN + BONUS_COMPLETED

PointsFor(duration_min, status) ==
    LET base == duration_min * POINTS_PER_MIN
    IN  IF status = "completed" THEN base + BONUS_COMPLETED ELSE base

NewAstronaut(username) ==
    [username |-> username, avatar |-> "None", level |-> 1, xp |-> 0, streak |-> 0]

\* indices of the astronaut documents matching {"username": username}
AstroIdx(username) == {i \in 1..Len(astronaut) : astronaut[i].username = username}

\* mutant: the lookup never finds the document
FindAstronautNothing(username) == {<<>>}

\* the results find({"username": username}).limit(1) / find_one can give:
\* the empty list, or a one-element list holding one of the matching documents
FindAstronaut(username) ==
    IF AstroIdx(username) = {} THEN {<<>>}
    ELSE {<<astronaut[i]>> : i \in AstroIdx(username)}

\* mutant: the update filter does not select by username
UpdateXpAnyUser(username, new_xp, level) ==
    IF astronaut = <<>> THEN {astronaut}
    ELSE {[astronaut EXCEPT ![i].xp = new_xp, ![i].level = level] : i \in 1..Len(astronaut)}

\* the collections update_one({"username": username}, {"$set": ...}) can leave
UpdateXp(username, new_xp, level) ==
    IF AstroIdx(username) = {} THEN {astronaut}
    ELSE {[astronaut EXCEPT ![i].xp = new_xp, ![i].level = level] : i \in AstroIdx(username)}

UpdateStreak(username, current_streak) ==
    IF AstroIdx(username) = {} THEN {astronaut}
    ELSE {[astronaut EXCEPT ![i].streak = current_streak] : i \in AstroIdx(username)}

\* find({"user": username, "status": "completed"}).sort("ended_at", -1).limit(1),
\* then the loop that keeps its ended_at (None when the cursor is empty)
LastCompleted(username) ==
    LET idx == {i \in 1..Len(session) :
                   session[i].user = username /\ session[i].status = "completed"}
    IN  IF idx = {} THEN NoneDt
        ELSE CHOOSE t \in {session[i].ended_at : i \in idx} :
                 \A i \in idx : session[i].ended_at <= t

\* the streak update_streak computes from the last completed date
NextStreak(current_streak, last_dt, today) ==
    IF last_dt # NoneDt
    THEN IF Date(last_dt) = today THEN current_streak
         ELSE IF Date(last_dt) = today - 1 THEN current_streak + 1
         ELSE 1
    ELSE 1

\* mutant: update_streak is called for cancelled sessions too
CallsUpdateStreakAlways(status) == TRUE

\* complete_session calls update_streak for a completed session only
CallsUpdateStreak(status) == status = "completed"

\* update_streak returns early, without writing, when the last date is today
StreakWrites(last_dt, today) == ~(last_dt # NoneDt /\ Date(last_dt) = today)

-----------------------------------------------------------------------------
(* Leaderboard pipeline *)

\* mutant: $match without the status filter
MatchedAnyStatus(period, now) ==
    {i \in 1..Len(session) :
        period = "week" => session[i].ended_at >= now - WEEK_DAYS * TicksPerDay}

\* $match
Matched(period, now) ==
    {i \in 1..Len(session) :
        /\ session[i].status = "completed"
        /\ (period = "week" => session[i].ended_at >= now - WEEK_DAYS * TicksPerDay)}

RECURSIVE SumPoints(_)
SumPoints(S) ==
    IF S = {} THEN 0
    ELSE LET i == CHOOSE j \in S : TRUE
         IN  session[i].points_earned + SumPoints(S \ {i})

\* $group by user with $sum of points_earned
Grouped(period, now) ==
    LET m == Matched(period, now)
    IN  {[id |-> u, points |-> SumPoints({i \in m : session[i].user = u})] :
            u \in {session[i].user : i \in m}}

\* $sort {"points": -1}: every descending order of the groups (ties in any order)
SortedDesc(G) ==
    {f \in [1..Cardinality(G) -> G] :
        /\ \A i, j \in 1..Cardinality(G) : i # j => f[i] # f[j]
        /\ \A i, j \in 1..Cardinality(G) : i < j => f[i].points >= f[j].points}

\* $limit
Limit(rows, limit) == SubSeq(rows, 1, Min(limit, Len(rows)))

Aggregate(period, limit, now) ==
    {Limit(f, limit) : f \in SortedDesc(Grouped(period, now))}

-----------------------------------------------------------------------------
(* Initial state: empty collections, every worker idle *)

NoReq == [op |-> "none", user |-> "", duration_min |-> 0, status |-> "",
          period |-> "", limit |-> 0]

InitFrame == [now |-> 0, points |-> 0, sid |-> 0, user |-> <<>>,
              stats |-> [xp |-> 0, level |-> 0], today |-> 0, last_dt |-> NoneDt,
              streak |-> 0, ret |-> "idle", rows |-> <<>>, items |-> <<>>]

Init ==
    /\ clock = 0
    /\ astronaut = <<>>
    /\ session = <<>>
    /\ pc = [p \in Workers |-> "idle"]
    /\ req = [p \in Workers |-> NoReq]
    /\ frame = [p \in Workers |-> InitFrame]
    /\ ticks = 0
    /\ overlapped = {}

-----------------------------------------------------------------------------
(* The clock.  It is read by complete_session (now), update_streak (today) *)
(* and leaderboard (since); advancing it is observable only by a worker    *)
(* that is about to read it.                                               *)

ReadsClock(p) == pc[p] \in {"idle", "us_find"}

Tick(W, steps, maxTicks) ==
    /\ \E p \in W : ReadsClock(p)
    /\ ticks < maxTicks
    /\ ticks' = ticks + 1
    /\ \E d \in steps : clock' = clock + d
    /\ UNCHANGED <<astronaut, session, pc, req, frame, overlapped>>

-----------------------------------------------------------------------------
(* ensure_astronaut, called from four places; frame.ret is where it returns *)

EaFind(p) ==
    /\ pc[p] = "ea_find"
    /\ \E existing \in FindAstronaut(req[p].user) :
        IF existing # <<>>
        THEN /\ frame' = [frame EXCEPT ![p].user = existing]
             /\ pc' = [pc EXCEPT ![p] = frame[p].ret]
        ELSE /\ pc' = [pc EXCEPT ![p] = "ea_insert"]
             /\ UNCHANGED frame
    /\ UNCHANGED <<clock, astronaut, session, req, ticks, overlapped>>

EaInsert(p) ==
    /\ pc[p] = "ea_insert"
    /\ astronaut' = Append(astronaut, NewAstronaut(req[p].user))
    /\ frame' = [frame EXCEPT ![p].user = <<NewAstronaut(req[p].user)>>]
    /\ pc' = [pc EXCEPT ![p] = frame[p].ret]
    /\ UNCHANGED <<clock, session, req, ticks, overlapped>>

-----------------------------------------------------------------------------
(* complete_session *)

CsInsert(p, user, duration_min, status) ==
    /\ pc[p] = "idle"
    /\ LET points == PointsFor(duration_min, status)
       IN  /\ session' = Append(session,
                  [user |-> user, duration_min |-> duration_min, status |-> status,
                   points_earned |-> points, ended_at |-> clock])
           /\ frame' = [frame EXCEPT ![p].now = clock, ![p].points = points,
                                     ![p].sid = Len(session) + 1,
                                     ![p].ret = "axp_update"]
    /\ req' = [req EXCEPT ![p] = [op |-> "complete", user |-> user,
                                  duration_min |-> duration_min, status |-> status,
                                  period |-> "", limit |-> 0]]
    /\ pc' = [pc EXCEPT ![p] = "ea_find"]
    /\ overlapped' = IF \E q \in Workers \ {p} : req[q].op = "complete" /\ req[q].user = user
                     THEN overlapped \cup {user} ELSE overlapped
    /\ UNCHANGED <<clock, astronaut, ticks>>

\* add_xp_and_level after its ensure_astronaut; then the call that follows in
\* complete_session is chosen: update_streak, or ensure_astronaut for the streak
AxpUpdate(p) ==
    /\ pc[p] = "axp_update"
    /\ LET new_xp == NewXp(frame[p].user[1].xp, frame[p].points)
           level == LevelFor(new_xp)
       IN  /\ astronaut' \in UpdateXp(req[p].user, new_xp, level)
           /\ IF CallsUpdateStreak(req[p].status)
              THEN /\ pc' = [pc EXCEPT ![p] = "us_find"]
                   /\ frame' = [frame EXCEPT ![p].stats = [xp |-> new_xp, level |-> level]]
              ELSE /\ pc' = [pc EXCEPT ![p] = "ea_find"]
                   /\ frame' = [frame EXCEPT ![p].stats = [xp |-> new_xp, level |-> level],
                                             ![p].ret = "cs_return"]
    /\ UNCHANGED <<clock, session, req, ticks, overlapped>>

\* update_streak: today and the last completed session
UsFind(p) ==
    /\ pc[p] = "us_find"
    /\ frame' = [frame EXCEPT ![p].today = Date(clock),
                              ![p].last_dt = LastCompleted(req[p].user),
                              ![p].ret = "us_update"]
    /\ pc' = [pc EXCEPT ![p] = "ea_find"]
    /\ UNCHANGED <<clock, astronaut, session, req, ticks, overlapped>>

\* update_streak after its ensure_astronaut
UsUpdate(p) ==
    /\ pc[p] = "us_update"
    /\ LET current_streak == NextStreak(frame[p].user[1].streak, frame[p].last_dt,
                                        frame[p].today)
       IN  /\ frame' = [frame EXCEPT ![p].streak = current_streak]
           /\ IF StreakWrites(frame[p].last_dt, frame[p].today)
              THEN astronaut' \in UpdateStreak(req[p].user, current_streak)
              ELSE UNCHANGED astronaut
    /\ pc' = [pc EXCEPT ![p] = "cs_return"]
    /\ UNCHANGED <<clock, session, req, ticks, overlapped>>

\* the body complete_session returns
CsResponse(p) ==
    [session_id |-> frame[p].sid,
     points |-> frame[p].points,
     xp |-> frame[p].stats.xp,
     level |-> frame[p].stats.level,
     streak |-> IF CallsUpdateStreak(req[p].status) THEN frame[p].streak
                ELSE frame[p].user[1].streak]

Return(p, at) ==
    /\ pc[p] = at
    /\ pc' = [pc EXCEPT ![p] = "idle"]
    /\ req' = [req EXCEPT ![p] = NoReq]
    /\ frame' = [frame EXCEPT ![p] = InitFrame]
    /\ UNCHANGED <<clock, astronaut, session, ticks, overlapped>>

CsReturn(p) == Return(p, "cs_return")

-----------------------------------------------------------------------------
(* get_astronaut *)

GaFindOne(p, username) ==
    /\ pc[p] = "idle"
    /\ req' = [req EXCEPT ![p] = [op |-> "get", user |-> username, duration_min |-> 0,
                                  status |-> "", period |-> "", limit |-> 0]]
    /\ \E user \in FindAstronaut(username) :
        IF user # <<>>
        THEN /\ frame' = [frame EXCEPT ![p].user = user]
             /\ pc' = [pc EXCEPT ![p] = "ga_return"]
        ELSE /\ frame' = [frame EXCEPT ![p].ret = "ga_return"]
             /\ pc' = [pc EXCEPT ![p] = "ea_find"]
    /\ UNCHANGED <<clock, astronaut, session, ticks, overlapped>>

GaResponse(p) == frame[p].user[1]

GaReturn(p) == Return(p, "ga_return")

-----------------------------------------------------------------------------
(* leaderboard *)

LbAggregate(p, period, limit) ==
    /\ pc[p] = "idle"
    /\ req' = [req EXCEPT ![p] = [op |-> "board", user |-> "", duration_min |-> 0,
                                  status |-> "", period |-> period, limit |-> limit]]
    /\ \E rows \in Aggregate(period, limit, clock) :
        frame' = [frame EXCEPT ![p].now = clock, ![p].rows = rows]
    /\ pc' = [pc EXCEPT ![p] = "lb_join"]
    /\ UNCHANGED <<clock, astronaut, session, ticks, overlapped>>

\* one turn of the loop over rows: find_one on astronaut, default {"level": 1}
LbJoin(p) ==
    /\ pc[p] = "lb_join"
    /\ Len(frame[p].items) < Len(frame[p].rows)
    /\ LET r == frame[p].rows[Len(frame[p].items) + 1]
       IN  \E user \in FindAstronaut(r.id) :
               frame' = [frame EXCEPT ![p].items = Append(@,
                   [username |-> r.id, points |-> r.points,
                    level |-> IF user = <<>> THEN 1 ELSE user[1].level])]
    /\ UNCHANGED <<clock, astronaut, session, pc, req, ticks, overlapped>>

LbResponse(p) == frame[p].items

LbReturn(p) ==
    /\ Len(frame[p].items) = Len(frame[p].rows)
    /\ Return(p, "lb_join")

-----------------------------------------------------------------------------------------------------------------------------------------------------
(* Specifications *)

\* complete_session and get_astronaut requests of the workers, interleaved,
\* the clock standing still
Next ==
    \E p \in Workers :
        \/ /\ Len(session) < MaxSessions
           /\ \E u \in Users, d \in Durations, s \in Statuses : CsInsert(p, u, d, s)
        \/ EaFind(p)
        \/ EaInsert(p)
        \/ AxpUpdate(p)
        \/ UsFind(p)
        \/ UsUpdate(p)
        \/ CsReturn(p)
        \/ \E u \in Users : GaFindOne(p, u)
        \/ GaReturn(p)

Spec == Init /\ [][Next]_vars

\* complete_session and get_astronaut, one request at a time; the clock
\* advances by a tick, a day or three days
NextSeq ==
    \/ Tick(SeqWorkers, {1, TicksPerDay, 3 * TicksPerDay}, MaxTicksSeq)
    \/ \E p \in SeqWorkers :
        \/ /\ Len(session) < MaxSessionsSeq
           /\ \E u \in Users, d \in Durations, s \in Statuses : CsInsert(p, u, d, s)
        \/ EaFind(p)
        \/ EaInsert(p)
        \/ AxpUpdate(p)
        \/ UsFind(p)
        \/ UsUpdate(p)
        \/ CsReturn(p)
        \/ \E u \in Users : GaFindOne(p, u)
        \/ GaReturn(p)

SpecSeq == Init /\ [][NextSeq]_vars

\* complete_session requests of one worker interleaved with leaderboard
\* requests of the other; the clock advances by a tick or by a week
NextBoard ==
    \/ Tick(Workers, {1, WEEK_DAYS * TicksPerDay}, MaxTicksBoard)
    \/ \E p \in BoardWriters :
        \/ /\ Len(session) < MaxSessionsBoard
           /\ \E u \in Users, d \in BoardDurations, s \in Statuses : CsInsert(p, u, d, s)
        \/ EaFind(p)
        \/ EaInsert(p)
        \/ AxpUpdate(p)
        \/ UsFind(p)
        \/ UsUpdate(p)
        \/ CsReturn(p)
    \/ \E p \in BoardReaders :
        \/ \E per \in Periods, l \in Limits : LbAggregate(p, per, l)
        \/ LbJoin(p)
        \/ LbReturn(p)

SpecBoard == Init /\ [][NextBoard]_vars

\* complete_session requests only, interleaved, the clock standing still
NextRace ==
    \E p \in Workers :
        \/ /\ Len(session) < MaxSessions
           /\ \E u \in Users, d \in Durations, s \in Statuses : CsInsert(p, u, d, s)
        \/ EaFind(p)
        \/ EaInsert(p)
        \/ AxpUpdate(p)
        \/ UsFind(p)
        \/ UsUpdate(p)
        \/ CsReturn(p)

SpecRace == Init /\ [][NextRace]_vars

-----------------------------------------------------------------------------
(* State functions used by the properties *)

AllIdle == \A p \in Workers : pc[p] = "idle"

\* the values a field holds over the user's astronaut documents
StreaksOf(u) == {astronaut[i].streak : i \in AstroIdx(u)}

XpsOf(u) == {astronaut[i].xp : i \in AstroIdx(u)}

SessionsOf(u) == {i \in 1..Len(session) : session[i].user = u}

\* worker p runs complete_session and has not yet written its xp
XpPending(p) ==
    /\ req[p].op = "complete"
    /\ \/ pc[p] = "axp_update"
       \/ pc[p] \in {"ea_find", "ea_insert"} /\ frame[p].ret = "axp_update"

\* worker p runs complete_session and add_xp_and_level has just returned
XpReturned(p) ==
    /\ req[p].op = "complete"
    /\ \/ pc[p] = "us_find"
       \/ pc[p] = "ea_find" /\ frame[p].ret = "cs_return"

\* the completed sessions of the user other than the one worker p inserted
EarlierCompleted(p) ==
    {i \in SessionsOf(req[p].user) \ {frame[p].sid} : session[i].status = "completed"}

-----------------------------------------------------------------------------
(* C1: streak transition on completion.  When a completed request that    *)
(* was processed within one UTC day returns, and the user's most recent    *)
(* earlier completed session ended the day before, the stored and returned *)
(* streak is the streak the request found plus 1; when that session ended  *)
(* three or more days before, they are 1; when it ended today, they are    *)
(* the streak the request found.                                           *)
C1_StreakTransition ==
    \A p \in Workers :
        (/\ pc[p] = "cs_return"
         /\ req[p].status = "completed"
         /\ frame[p].today = Date(frame[p].now)
         /\ EarlierCompleted(p) # {})
        => LET u == req[p].user
               today == frame[p].today
               prev == CHOOSE t \in {session[i].ended_at : i \in EarlierCompleted(p)} :
                           \A i \in EarlierCompleted(p) : session[i].ended_at <= t
               old == frame[p].user[1].streak
           IN  /\ Date(prev) = today - 1
                    => StreaksOf(u) = {old + 1} /\ CsResponse(p).streak = old + 1
               /\ Date(prev) <= today - 3
                    => StreaksOf(u) = {1} /\ CsResponse(p).streak = 1
               /\ Date(prev) = today
                    => StreaksOf(u) = {old} /\ CsResponse(p).streak = old

(* C2: first completion starts the streak.  When a completed request of a  *)
(* user with no earlier completed session returns, the streak stored on    *)
(* the astronaut document and the streak in the response are both 1.       *)
C2_FirstCompletionStreakOne ==
    \A p \in Workers :
        (/\ pc[p] = "cs_return"
         /\ req[p].status = "completed"
         /\ EarlierCompleted(p) = {})
        => /\ CsResponse(p).streak = 1
           /\ StreaksOf(req[p].user) = {1}

(* C3: astronaut uniqueness.  In every reachable state, under any          *)
(* interleaving of get_astronaut and complete_session requests, there is   *)
(* at most one astronaut document per username, and exactly one for the    *)
(* username of a request that has reached its return.                      *)
C3_OneDocumentPerUsername ==
    /\ \A u \in Users : Cardinality(AstroIdx(u)) <= 1
    /\ \A p \in Workers :
         pc[p] \in {"cs_return", "ga_return"} => Cardinality(AstroIdx(req[p].user)) = 1

\* parts of C4, stated below
C4_DocumentsConsistent ==
    /\ \A i \in 1..Len(astronaut) :
         /\ astronaut[i].xp >= 0
         /\ astronaut[i].level >= 1
         /\ 250 * (astronaut[i].level - 1) <= astronaut[i].xp
         /\ astronaut[i].xp < 250 * astronaut[i].level
    /\ LevelFor(0) = 1 /\ LevelFor(249) = 1 /\ LevelFor(250) = 2 /\ LevelFor(999) = 4

C4_ReturnsWhatItPersisted ==
    \A p \in Workers :
        (pc[p] = "axp_update" /\ pc'[p] # "axp_update")
        => \E i \in AstroIdx(req[p].user) :
              /\ astronaut'[i].xp = frame'[p].stats.xp
              /\ astronaut'[i].level = frame'[p].stats.level
              /\ \A j \in 1..Len(astronaut) : j # i => astronaut'[j] = astronaut[j]

(* C4: level/xp consistency.  Every astronaut document has xp >= 0,        *)
(* level >= 1 and level = max(1, floor(xp / 250) + 1), that is             *)
(* 250 * (level - 1) <= xp < 250 * level; xp 0 and 249 give level 1,       *)
(* 250 gives 2, 999 gives 4; and add_xp_and_level returns the xp and level *)
(* that its update_one wrote to a document of the user.                    *)
C4_LevelXpConsistency == []C4_DocumentsConsistent /\ [][C4_ReturnsWhatItPersisted]_vars

\* witness of C4: add_xp_and_level has returned level 2 and a document holds the xp it returned
C4_Witness ==
    \E p \in Workers :
        /\ XpReturned(p)
        /\ frame[p].stats.level = 2
        /\ \E i \in AstroIdx(req[p].user) : astronaut[i].xp = frame[p].stats.xp

(* C5: points formula.  Every request of complete_session computes         *)
(* points = duration_min * 2 + 25 when completed and duration_min * 2 when *)
(* cancelled (85 and 60 for 30 minutes); that value is the points_earned   *)
(* of the session document it inserted, the "points" it returns, and the   *)
(* amount by which add_xp_and_level raised the xp it read.                 *)
C5_PointsFormula ==
    /\ PointsFor(30, "completed") = 85 /\ PointsFor(30, "cancelled") = 60
    /\ \A i \in 1..Len(session) :
         session[i].points_earned =
            session[i].duration_min * 2 + (IF session[i].status = "completed" THEN 25 ELSE 0)
    /\ \A p \in Workers :
         req[p].op = "complete"
         => LET expected == req[p].duration_min * 2
                                + (IF req[p].status = "completed" THEN 25 ELSE 0)
                doc == session[frame[p].sid]
            IN  /\ doc.user = req[p].user
                /\ doc.duration_min = req[p].duration_min
                /\ doc.status = req[p].status
                /\ doc.points_earned = expected
                /\ XpReturned(p) => frame[p].stats.xp = frame[p].user[1].xp + expected
                /\ pc[p] = "cs_return" => CsResponse(p).points = expected

\* witness of C5: a completed request of 112 minutes returns 249 points after a cancelled one of 125 minutes earned 250
C5_Witness ==
    \E p \in Workers :
        /\ pc[p] = "cs_return"
        /\ req[p].status = "completed"
        /\ req[p].duration_min = 112
        /\ CsResponse(p).points = 249
        /\ \E i \in 1..Len(session) :
             session[i].status = "cancelled" /\ session[i].points_earned = 250

(* C6: sequential xp accumulation.  With requests handled one at a time,   *)
(* a user's stored xp is the sum of points_earned over the user's session  *)
(* documents, completed and cancelled, except the session of a request     *)
(* whose add_xp_and_level has not written yet; a user with no astronaut    *)
(* document has no other session.                                          *)
C6_SequentialXpIsSumOfPoints ==
    \A u \in Users :
        LET pending == {frame[p].sid : p \in {q \in Workers : XpPending(q) /\ req[q].user = u}}
            total == SumPoints(SessionsOf(u) \ pending)
        IN  IF AstroIdx(u) = {} THEN total = 0 ELSE XpsOf(u) = {total}

\* witness of C6: a user with a completed and a cancelled session holds their sum while the other user holds 0
C6_Witness ==
    /\ AllIdle
    /\ \E u \in Users :
         /\ \E i, j \in SessionsOf(u) :
              session[i].status = "completed" /\ session[j].status = "cancelled"
         /\ XpsOf(u) = {SumPoints(SessionsOf(u))}
         /\ \A v \in Users \ {u} : XpsOf(v) = {0}

(* C7: lost-update race.  When every request has returned, a user for whom *)
(* no two complete_session requests overlapped has xp equal to the sum of  *)
(* points_earned of the user's sessions: overlapping requests for          *)
(* different users lose nothing.  For a user whose two requests overlapped *)
(* a state is reachable with both sessions stored and the xp of only one.  *)
C7_NoLossWithoutOverlap ==
    AllIdle =>
        \A u \in Users \ overlapped :
            IF AstroIdx(u) = {} THEN SessionsOf(u) = {}
            ELSE XpsOf(u) = {SumPoints(SessionsOf(u))}

\* witness of C7: two overlapped requests of a user have returned, both sessions are stored, the xp is that of one
C7_Witness ==
    /\ AllIdle
    /\ \E u \in overlapped :
         /\ Cardinality(SessionsOf(u)) = 2
         /\ Cardinality(AstroIdx(u)) = 1
         /\ \A x \in XpsOf(u) :
              /\ x < SumPoints(SessionsOf(u))
              /\ \E i \in SessionsOf(u) : x = session[i].points_earned

\* parts of C8, stated below
C8_Aggregated ==
    \A p \in Workers :
        (pc[p] = "idle" /\ pc'[p] = "lb_join")
        => LET rows == frame'[p].rows
               counted(u) == {i \in SessionsOf(u) :
                                 /\ session[i].status = "completed"
                                 /\ (req'[p].period = "week"
                                       => clock - session[i].ended_at <= 7 * TicksPerDay)}
               ranked == {u \in Users : counted(u) # {}}
               listed == {rows[k].id : k \in 1..Len(rows)}
           IN  /\ Len(rows) = Min(req'[p].limit, Cardinality(ranked))
               /\ listed \subseteq ranked
               /\ Cardinality(listed) = Len(rows)
               /\ \A k \in 1..Len(rows) : rows[k].points = SumPoints(counted(rows[k].id))
               /\ \A j, k \in 1..Len(rows) : j < k => rows[j].points >= rows[k].points
               /\ \A u \in ranked \ listed : \A k \in 1..Len(rows) :
                    rows[k].points >= SumPoints(counted(u))
               /\ ranked = {} => rows = <<>>

C8_Joined ==
    \A p \in Workers :
        (pc[p] = "lb_join" /\ pc'[p] = "lb_join" /\ frame'[p].items # frame[p].items)
        => LET k == Len(frame[p].items) + 1
               item == frame'[p].items[k]
           IN  /\ Len(frame'[p].items) = k
               /\ SubSeq(frame'[p].items, 1, k - 1) = frame[p].items
               /\ item.username = frame[p].rows[k].id
               /\ item.points = frame[p].rows[k].points
               /\ IF AstroIdx(item.username) = {}
                  THEN item.level = 1
                  ELSE \E i \in AstroIdx(item.username) : item.level = astronaut[i].level

C8_ResponseComplete ==
    \A p \in Workers :
        pc[p] = "lb_join"
        => /\ Len(frame[p].items) <= Len(frame[p].rows)
           /\ Len(frame[p].rows) <= req[p].limit
           /\ \A k \in 1..Len(frame[p].items) :
                /\ LbResponse(p)[k].username = frame[p].rows[k].id
                /\ LbResponse(p)[k].points = frame[p].rows[k].points

C9_StreakView == [u \in Users |-> IF AstroIdx(u) = {} THEN {0} ELSE StreaksOf(u)]

C9_CancelledKeepsStreak ==
    \A p \in Workers :
        (req[p].op = "complete" /\ req[p].status = "cancelled") => C9_StreakView' = C9_StreakView

C9_CancelledReturn ==
    \A p \in Workers :
        /\ (pc[p] = "cs_return" /\ req[p].status = "cancelled")
           => /\ StreaksOf(req[p].user) = {CsResponse(p).streak}
              /\ session[frame[p].sid].status = "cancelled"
              /\ session[frame[p].sid].user = req[p].user
              /\ session[frame[p].sid].points_earned = req[p].duration_min * 2
              /\ CsResponse(p).points = req[p].duration_min * 2
              /\ XpsOf(req[p].user) = {CsResponse(p).xp}
        /\ (pc[p] \in {"ea_find", "ea_insert", "us_update"} /\ frame[p].ret = "us_update")
           => /\ req[p].status = "completed"
              /\ \E i \in SessionsOf(req[p].user) :
                    /\ session[i].status = "completed"
                    /\ session[i].ended_at = frame[p].last_dt
              /\ \A i \in SessionsOf(req[p].user) :
                    session[i].status = "completed" => session[i].ended_at <= frame[p].last_dt

(* C9: cancelled sessions leave the streak alone.  While a cancelled       *)
(* request is handled no stored streak changes (a user without a document  *)
(* counts as streak 0); when it returns, its session document is stored    *)
(* with the base points, the stored xp is the xp it computed by adding     *)
(* them, and the streak it returns is the stored one.  The last session    *)
(* update_streak reads is the latest completed one of the user, whatever   *)
(* cancelled sessions are stored.                                          *)
C9_CancelledLeavesStreak == []C9_CancelledReturn /\ [][C9_CancelledKeepsStreak]_vars

\* witness of C9: a cancelled request returns a streak of 1 for a user who already had xp
C9_Witness ==
    \E p \in Workers :
        /\ pc[p] = "cs_return"
        /\ req[p].status = "cancelled"
        /\ CsResponse(p).streak = 1
        /\ CsResponse(p).xp > CsResponse(p).points

\* parts of C10, stated below
C10_GetReturnsStored ==
    \A p \in Workers :
        pc[p] = "ga_return"
        => /\ frame[p].user # <<>>
           /\ Cardinality(AstroIdx(req[p].user)) = 1
           /\ \E i \in AstroIdx(req[p].user) : GaResponse(p) = astronaut[i]

C10_LazyIdempotentStep ==
    \A p \in Workers :
        \* get_astronaut: one step of the request, its first one included
        /\ req'[p].op = "get"
           => LET u == req'[p].user
                  fresh == [username |-> u, avatar |-> "None", level |-> 1, xp |-> 0,
                            streak |-> 0]
              IN  IF AstroIdx(u) # {}
                  THEN /\ astronaut' = astronaut
                       /\ pc'[p] # "ea_insert"
                  ELSE /\ astronaut' \in {astronaut, Append(astronaut, fresh)}
                       /\ (pc'[p] = "ga_return") <=> (astronaut' # astronaut)
                       /\ astronaut' # astronaut => GaResponse(p)' = fresh
        \* ensure_astronaut, whoever calls it, for a username with a document
        /\ (pc[p] = "ea_find" /\ pc'[p] # "ea_find" /\ AstroIdx(req[p].user) # {})
           => /\ astronaut' = astronaut
              /\ pc'[p] = frame[p].ret
              /\ \E i \in AstroIdx(req[p].user) : frame'[p].user = <<astronaut[i]>>

(* C10: lazy, idempotent profile creation.  With requests handled one at a *)
(* time, get_astronaut always returns a profile, the one stored document   *)
(* of the username; for a username without a document it stores and        *)
(* returns a new one with level 1, xp 0, streak 0 and no avatar; for a     *)
(* username with a document, get_astronaut and ensure_astronaut return a   *)
(* stored document and leave the collection as it was.                     *)
C10_LazyIdempotentProfile == []C10_GetReturnsStored /\ [][C10_LazyIdempotentStep]_vars

\* witness of C10: get_astronaut created and returns a default profile while another user holds xp
C10_Witness ==
    \E p \in Workers :
        /\ pc[p] = "ga_return"
        /\ frame[p].ret = "ga_return"
        /\ GaResponse(p) = NewAstronaut(req[p].user)
        /\ \E v \in Users \ {req[p].user} : \E x \in XpsOf(v) : x > 0

====
